---- MODULE Spec2Model ----
(***************************************************************************)
(* Model of the BookingAssistant pipeline: the session recorder            *)
(* (src/src/metrics_service.py), the stage graph (src/src/main.py) and the *)
(* callers that start a session, invoke the graph and finalize the session *)
(* (run_assistant.py, replit_unified_app.py, secure_dashboard_app.py).     *)
(*                                                                         *)
(* The MetricsCollector is one process-wide object (`metrics`): its        *)
(* current_session and node_timers fields are shared by every thread that  *)
(* runs the pipeline.  Every database round trip and every collaborator    *)
(* call is a separate step, so threads interleave between them.            *)
(***************************************************************************)
EXTENDS Integers, Sequences, FiniteSets, TLC

\* ---------------------------------------------------------------- bounds
MaxRuns == 2       \* submissions in a behaviour of the concurrent system
MaxSeqRuns == 2    \* submissions in a behaviour of the single-caller system
MaxClock == 2      \* ticks of the clock in a behaviour that measures time
MaxTimerRows == 3  \* stage execution rows written by direct timer calls
MaxAcquires == 3   \* _get_connection calls in a behaviour of the pool
MaxConn == 2       \* connections the pool may have checked out at once
MaxEditDistance == 201  \* largest edit_distance a quality score is asked for
MaxDraftLength == 801   \* largest draft_length an adherence score is asked for
MaxPollers == 2    \* polling threads alive at once

\* ------------------------------------------------------------- constants
None == "None"     \* Python None for string-valued fields
NoId == 0          \* Python None for a session id / no session row / no conn
NoTime == -1       \* NULL processing_completed_at / total_duration_ms
max_retries == 3   \* _get_connection: max_retries
minconn == 2       \* SimpleConnectionPool(minconn=2, ...)

\* the polling thread and the thread that serves on-demand requests
Threads == {"poll", "web"}
MainThread == "poll"

Callers == {"process_email", "process_emails_internal",
            "continuous_email_processing", "start_agent_v2"}

\* callers that can run on each thread of replit_unified_app.py
CallersOf(t) ==
  IF t = "poll" THEN {"continuous_email_processing"}
  ELSE {"process_emails_internal", "start_agent_v2"}

Bodies == {"b1"}
Senders == {"s1"}
Emails == [body : Bodies, sender_email : Senders]

\* messages of one sender with different bodies
AllBodies == {"b1", "b2"}
AllEmails == [body : AllBodies, sender_email : Senders]

rejection_types == {"Identity-based rejection", "Topic-based rejection",
                    "Qualification-based rejection"}
Labels == rejection_types \cup {"No Guests"}

\* str(e) of the exception a collaborator call may raise
ErrMsgs == {"", "boom"}

\* raw replies of the continuation decision call
GateReplies == {"no", " No ", "yes", "maybe"}

\* replies of the rejection analysis: a JSON object with rejection_type
\* Hard / Soft Rejection and angles, a JSON object without either field, and
\* a reply with no parsable JSON object
RejectionReplies == {"Hard Rejection", "Soft Rejection", "no_fields",
                     "unparsable"}

\* exits of the document extraction stage: content extracted; a degraded
\* exit that closes the stage timer (folder id not set, no matching folder,
\* no documents, no document selected); a degraded exit that returns early
\* (no client folders, reply without a JSON object, JSON decode error); an
\* exception of a collaborator, caught by the stage's handler
DocOutcomes == {"extracted", "degraded_closed", "degraded_open", "exception"}

VARIABLES
  \* persisted tables
  email_sessions, node_executions, classification_results, draft_generations,
  \* MetricsCollector fields
  current_session, node_timers,
  \* uuid.uuid4() source and the TESTING_MODE environment flag
  next_uuid, testing_mode,
  \* the clock read by time.time() / datetime.now(), and its last tick
  now, clock_limit,
  \* the connection pool: idle connections, checked-out connections, closed
  \* connections, the next connection the pool opens; and the locals of the
  \* _get_connection call in progress
  pool_free, pool_used, pool_closed, next_conn, acquire,
  \* the score computation in progress: its arguments and its result
  score_call, query, fetch,
  email_processing_active, pollers, main_loop,
  \* the checkpoints of the graph's MemorySaver, one per thread id
  memory,
  \* per-thread position and locals
  pc, caller, email_details, session_id, existing_id, params, start_result,
  state, exc, executed, gate_decision, sent, run_no,
  \* submissions so far and their limit
  runs, run_limit

storeVars == <<email_sessions, node_executions, classification_results,
               draft_generations>>
collectorVars == <<current_session, node_timers>>
clockVars == <<now, clock_limit>>
poolVars == <<pool_free, pool_used, pool_closed, next_conn, acquire>>
consumerVars == <<query, fetch>>
pollVars == <<email_processing_active, pollers, main_loop>>
restVars == <<score_call, consumerVars, pollVars>>
auxVars == <<restVars, memory>>
envVars == <<next_uuid, testing_mode, run_limit, clockVars, poolVars, auxVars>>
envButMemory == <<next_uuid, testing_mode, run_limit, clockVars, poolVars,
                  restVars>>
startVars == <<caller, email_details, session_id, existing_id, params,
               start_result, run_no, runs>>
runVars == <<state, exc, executed, gate_decision, sent>>
vars == <<storeVars, collectorVars, envVars, pc, startVars, runVars>>

\* ------------------------------------------------------------- helpers
Upd(f, t, v) == [f EXCEPT ![t] = v]

EmptyState == [label |-> None, rejection_type |-> None,
               challenge_angles |-> None,
               relevant_document_content |-> FALSE,
               document_extraction_status |-> None,
               draft_status |-> None]

\* MetricsCollector._generate_email_hash: sha256 of "body|sender"
_generate_email_hash(email_text, sender_email) == <<email_text, sender_email>>

\* email_details.get('body', ''): start_agent_v2 passes the text under the
\* key 'email_text', every other caller under 'body'; text is the message
\* text under whichever key the caller uses
DetailsOf(c, e) ==
  IF c = "start_agent_v2"
  THEN [body |-> "", sender_email |-> e.sender_email, text |-> e.body]
  ELSE [body |-> e.body, sender_email |-> e.sender_email, text |-> e.body]

HashOf(t) ==
  _generate_email_hash(email_details[t].body, email_details[t].sender_email)

RowsByHash(h) == {r \in email_sessions : r.email_hash = h}
RowsById(id) == {r \in email_sessions : r.id = id}

\* INSERT into a table whose session_id REFERENCES email_sessions(id):
\* rejected (and swallowed by _execute_query) when no such session row exists
InsertChild(table, rec) ==
  IF RowsById(rec.session_id) # {} THEN table \cup {rec} ELSE table

\* response.content.strip().lower()
StripLower(reply) == IF reply = " No " THEN "no" ELSE reply

\* self.current_session = None
NoSession == [session_id |-> NoId, started_at |-> 0]

\* SessionMetrics(session_id=..., started_at=datetime.now(timezone.utc))
SessionMetrics(id) == [session_id |-> id, started_at |-> now]

\* no _get_connection call in progress
NoAcquire == [pc |-> "idle", attempt |-> 0, conn |-> NoId, result |-> NoId,
              failed |-> {}, calls |-> 0]

\* ---------------------------------------------------------------- Init
InitCommon ==
  /\ email_sessions = {}
  /\ node_executions = {}
  /\ classification_results = {}
  /\ draft_generations = {}
  /\ current_session = NoSession
  /\ node_timers = {}
  /\ next_uuid = 1
  /\ memory = {}
  /\ pc = [t \in Threads |-> "idle"]
  /\ caller = [t \in Threads |-> None]
  /\ email_details =
       [t \in Threads |-> [body |-> "", sender_email |-> "", text |-> ""]]
  /\ session_id = [t \in Threads |-> NoId]
  /\ existing_id = [t \in Threads |-> NoId]
  /\ params = [t \in Threads |-> 0]
  /\ start_result = [t \in Threads |-> None]
  /\ state = [t \in Threads |-> EmptyState]
  /\ exc = [t \in Threads |-> None]
  /\ executed = [t \in Threads |-> <<>>]
  /\ gate_decision = [t \in Threads |-> None]
  /\ sent = [t \in Threads |-> {}]
  /\ run_no = [t \in Threads |-> 0]
  /\ runs = 0
  /\ now = 0
  /\ pool_free = 1..minconn
  /\ pool_used = {}
  /\ pool_closed = {}
  /\ next_conn = minconn + 1
  /\ acquire = NoAcquire

\* no score computation in progress
NoScore == -1
NoScoreCall == [fn |-> None, action |-> None, rating |-> 0,
                edit_distance |-> 0, draft_length |-> 0, result |-> NoScore]

\* no query in progress / no prompt fetch in progress
NoQuery == [pc |-> "idle", conn |-> NoId, outcome |-> None, alive |-> TRUE,
            puts |-> 0]
NoFetch == [pc |-> "idle", held |-> {}]

\* the parts of the program a specification leaves at rest
\* no polling thread, the flag as initialised at replit_unified_app.py line
\* 265, main_loop about to scan
NoPoller == [pc |-> "none", failed |-> FALSE]
Pollers == 1..MaxPollers
InitPollRest ==
  /\ email_processing_active = FALSE
  /\ main_loop = [pc |-> "scan", failed |-> FALSE]

InitConsumers == query = NoQuery /\ fetch = NoFetch

InitNoPolling ==
  /\ InitPollRest
  /\ pollers = [i \in Pollers |-> NoPoller]

InitAux ==
  /\ score_call = NoScoreCall
  /\ InitConsumers
  /\ InitNoPolling

Init ==
  /\ InitCommon /\ InitAux
  /\ run_limit = MaxRuns /\ testing_mode = FALSE /\ clock_limit = 0

InitSeq ==
  /\ InitCommon /\ InitAux
  /\ run_limit = MaxSeqRuns
  /\ testing_mode \in BOOLEAN
  /\ clock_limit = 0

\* ------------------------------------------------------ session recorder
\* A caller picks up an inbound message: process_email(email_details), one
\* iteration of the loops of continuous_email_processing and
\* process_emails_internal, or a start_agent_v2 request.
Submit(t, c, e) ==
  /\ pc[t] = "idle"
  /\ runs < run_limit
  /\ runs' = runs + 1
  /\ run_no' = Upd(run_no, t, runs + 1)
  /\ caller' = Upd(caller, t, c)
  /\ email_details' = Upd(email_details, t, DetailsOf(c, e))
  /\ UNCHANGED <<session_id, start_result>>
  /\ pc' = Upd(pc, t, "start_lookup")
  /\ UNCHANGED <<storeVars, collectorVars, envVars, existing_id, params,
                 runVars>>

\* StartLookup without the completed check of lines 164-167: a completed
\* session is resumed like a failed one
StartLookupResumesCompleted(t) ==
  /\ pc[t] = "start_lookup"
  /\ LET result == RowsByHash(HashOf(t)) IN
     IF result # {}
     THEN LET row == CHOOSE r \in result : TRUE IN
          /\ existing_id' = Upd(existing_id, t, row.id)
          /\ current_session' = SessionMetrics(row.id)
          /\ params' = Upd(params, t, now)
          /\ pc' = Upd(pc, t, "start_update")
          /\ UNCHANGED <<session_id, start_result, next_uuid>>
     ELSE /\ existing_id' = Upd(existing_id, t, next_uuid)
          /\ next_uuid' = next_uuid + 1
          /\ current_session' = SessionMetrics(next_uuid)
          /\ params' = Upd(params, t, now)
          /\ pc' = Upd(pc, t, "start_insert")
          /\ UNCHANGED <<session_id, start_result>>
  /\ UNCHANGED <<storeVars, node_timers, testing_mode, run_limit,
                 clockVars, poolVars, auxVars,
                 caller, email_details, run_no, runs, runVars>>

\* start_session, lines 148-178 / 192-201: the SELECT by email_hash, the
\* completed -> return None branch, and the assignment of current_session
\* that precedes the UPDATE (resume) or the INSERT (new session).  params is
\* the processing_started_at the following statement is called with: it is
\* read from the clock before the statement is sent.
StartLookup(t) ==
  /\ pc[t] = "start_lookup"
  /\ LET result == RowsByHash(HashOf(t)) IN
     IF result # {}
     THEN LET row == CHOOSE r \in result : TRUE IN
          IF row.status = "completed"
          THEN /\ session_id' = Upd(session_id, t, NoId)
               /\ start_result' = Upd(start_result, t, "skip")
               /\ pc' = Upd(pc, t, "classify")
               /\ UNCHANGED <<existing_id, params, current_session,
                              next_uuid>>
          ELSE /\ existing_id' = Upd(existing_id, t, row.id)
               /\ current_session' = SessionMetrics(row.id)
               /\ params' = Upd(params, t, now)
               /\ pc' = Upd(pc, t, "start_update")
               /\ UNCHANGED <<session_id, start_result, next_uuid>>
     ELSE /\ existing_id' = Upd(existing_id, t, next_uuid)
          /\ next_uuid' = next_uuid + 1
          /\ current_session' = SessionMetrics(next_uuid)
          /\ params' = Upd(params, t, now)
          /\ pc' = Upd(pc, t, "start_insert")
          /\ UNCHANGED <<session_id, start_result>>
  /\ UNCHANGED <<storeVars, node_timers, testing_mode, run_limit,
                 clockVars, poolVars, auxVars,
                 caller, email_details, run_no, runs, runVars>>

\* StartUpdate without the UPDATE of lines 181-188: the existing id is
\* returned and the row keeps its status
StartUpdateKeepsStatus(t) ==
  /\ pc[t] = "start_update"
  /\ session_id' = Upd(session_id, t, existing_id[t])
  /\ start_result' = Upd(start_result, t, "resumed")
  /\ pc' = Upd(pc, t, "classify")
  /\ UNCHANGED <<storeVars, collectorVars, envVars, caller, email_details,
                 existing_id, params, run_no, runs, runVars>>

\* start_session, lines 180-190: UPDATE ... SET status = 'processing'
\* WHERE id = existing_id; return existing_id
StartUpdate(t) ==
  /\ pc[t] = "start_update"
  /\ email_sessions' =
       {IF r.id = existing_id[t]
        THEN [r EXCEPT !.status = "processing", !.started_at = params[t]]
        ELSE r : r \in email_sessions}
  /\ session_id' = Upd(session_id, t, existing_id[t])
  /\ start_result' = Upd(start_result, t, "resumed")
  /\ pc' = Upd(pc, t, "classify")
  /\ UNCHANGED <<node_executions, classification_results, draft_generations,
                 collectorVars, envVars, caller, email_details,
                 existing_id, params, run_no, runs, runVars>>

\* StartInsert against a table without the UNIQUE constraint on email_hash
StartInsertNoUnique(t) ==
  /\ pc[t] = "start_insert"
  /\ email_sessions' = email_sessions \cup
       {[id |-> existing_id[t], email_hash |-> HashOf(t),
         status |-> "processing", error_message |-> None,
         classification |-> None, text |-> email_details[t].text,
         started_at |-> params[t],
         completed_at |-> NoTime, total_duration |-> NoTime]}
  /\ session_id' = Upd(session_id, t, existing_id[t])
  /\ start_result' = Upd(start_result, t, "created")
  /\ pc' = Upd(pc, t, "classify")
  /\ UNCHANGED <<node_executions, classification_results, draft_generations,
                 collectorVars, envVars, caller, email_details,
                 existing_id, params, run_no, runs, runVars>>

\* start_session, lines 203-223: INSERT INTO email_sessions; email_hash is
\* UNIQUE (schema.py:123), so the INSERT of a hash that is present fails,
\* _execute_query returns None and start_session returns None
StartInsert(t) ==
  /\ pc[t] = "start_insert"
  /\ IF RowsByHash(HashOf(t)) = {}
     THEN /\ email_sessions' = email_sessions \cup
               {[id |-> existing_id[t], email_hash |-> HashOf(t),
                 status |-> "processing", error_message |-> None,
                 classification |-> None,
                 text |-> email_details[t].text,
                 started_at |-> params[t],
                 completed_at |-> NoTime, total_duration |-> NoTime]}
          /\ session_id' = Upd(session_id, t, existing_id[t])
          /\ start_result' = Upd(start_result, t, "created")
     ELSE /\ UNCHANGED email_sessions
          /\ session_id' = Upd(session_id, t, NoId)
          /\ start_result' = Upd(start_result, t, "insert_failed")
  /\ pc' = Upd(pc, t, "classify")
  /\ UNCHANGED <<node_executions, classification_results, draft_generations,
                 collectorVars, envVars, caller, email_details,
                 existing_id, params, run_no, runs, runVars>>

\* the pending starts of a stage name (at most one: node_timers is a dict)
Pending(node_name) == {p \in node_timers : p.node_name = node_name}

\* start_node_timer: no-op without a current session; otherwise
\* node_timers[node_name] = time.time(), replacing a pending start
start_node_timer(node_name) ==
  IF current_session = NoSession THEN node_timers
  ELSE (node_timers \ Pending(node_name))
         \cup {[node_name |-> node_name, started |-> now]}

\* end_node_timer: no-op without a current session or without a pending
\* start of that name; otherwise the pending start is removed and one row
\* is inserted for the CURRENT session of the collector
EndTimerActs(node_name) ==
  current_session # NoSession /\ Pending(node_name) # {}

\* end_node_timer without `del self.node_timers[node_name]`
end_node_timer_keeps_pending(t, node_name, success) ==
  IF EndTimerActs(node_name)
  THEN /\ UNCHANGED node_timers
       /\ node_executions' = InsertChild(node_executions,
             [id |-> Cardinality(node_executions) + 1,
              session_id |-> current_session.session_id,
              node_name |-> node_name,
              duration_ms |->
                now - (CHOOSE p \in Pending(node_name) : TRUE).started,
              success |-> success,
              run |-> run_no[t], owner |-> session_id[t]])
  ELSE UNCHANGED <<node_timers, node_executions>>

end_node_timer(t, node_name, success) ==
  IF EndTimerActs(node_name)
  THEN /\ node_timers' = node_timers \ Pending(node_name)
       /\ node_executions' = InsertChild(node_executions,
             [id |-> Cardinality(node_executions) + 1,
              session_id |-> current_session.session_id,
              node_name |-> node_name,
              duration_ms |->
                now - (CHOOSE p \in Pending(node_name) : TRUE).started,
              success |-> success,
              run |-> run_no[t], owner |-> session_id[t]])
  ELSE UNCHANGED <<node_timers, node_executions>>

\* complete_session(final_result, error), lines 429-447: the UPDATE of the
\* row of the collector's current session.  `not error` is true of None
\* and of the empty string.
CompletedStatus(error) ==
  IF error = None \/ error = "" THEN "completed" ELSE "failed"

complete_session(label, error) ==
  email_sessions' =
    {IF r.id = current_session.session_id
     THEN [r EXCEPT !.completed_at = now,
                    !.total_duration = now - current_session.started_at,
                    !.status = CompletedStatus(error),
                    !.error_message = error,
                    !.classification = label]
     ELSE r : r \in email_sessions}

\* the thread id of graph.invoke: process_email draws a fresh uuid for each
\* run, so no run of it meets a checkpoint and its own are never read again;
\* every other caller passes its session id, None (NoId) included
SharesThread(t) == caller[t] # "process_email"

\* graph.invoke(state, thread) with the MemorySaver: the values of the
\* thread's last checkpoint, updated with the input fields, are what the
\* first node sees; without a checkpoint only the input is there
LoadCheckpoint(t) ==
  IF SharesThread(t) /\ \E m \in memory : m.thread_id = session_id[t]
  THEN (CHOOSE m \in memory : m.thread_id = session_id[t]).values
  ELSE EmptyState

\* the checkpoint written after the last step that completed: the values
\* the run ended with replace the thread's earlier checkpoint
SaveCheckpoint(t) ==
  IF SharesThread(t) /\ executed[t] # <<>>
  THEN {m \in memory : m.thread_id # session_id[t]}
         \cup {[thread_id |-> session_id[t], values |-> state[t]]}
  ELSE memory

\* the label the caller's finalization passes: process_email passes the graph
\* result on success; end_email_session passes {"status": status}, which has
\* no 'label'; the error path of process_email passes no result
FinalLabel(t) ==
  IF caller[t] = "process_email" /\ exc[t] = None THEN state[t].label
  ELSE None

\* the caller returns to its loop / answers the request: its locals are gone
Return(t) ==
  /\ pc' = Upd(pc, t, "idle")
  /\ caller' = Upd(caller, t, None)
  /\ email_details' =
       Upd(email_details, t, [body |-> "", sender_email |-> "", text |-> ""])
  /\ session_id' = Upd(session_id, t, NoId)
  /\ existing_id' = Upd(existing_id, t, NoId)
  /\ params' = Upd(params, t, 0)
  /\ start_result' = Upd(start_result, t, None)
  /\ run_no' = Upd(run_no, t, 0)
  /\ state' = Upd(state, t, EmptyState)
  /\ exc' = Upd(exc, t, None)
  /\ executed' = Upd(executed, t, <<>>)
  /\ gate_decision' = Upd(gate_decision, t, None)
  /\ sent' = Upd(sent, t, {})
  /\ memory' = SaveCheckpoint(t)
  /\ UNCHANGED runs

\* The caller finalizes: metrics.complete_session(final_result=result) /
\* complete_session(error=str(e)) in process_email, end_email_session(
\* 'completed') / end_email_session('failed', str(e)) in the other callers.
\* Without a current session both return at once.
Finalize(t) ==
  /\ pc[t] \in {"end", "raised"}
  /\ IF current_session = NoSession
     THEN /\ Return(t)
          /\ UNCHANGED email_sessions
     ELSE /\ complete_session(FinalLabel(t), exc[t])
          /\ pc' = Upd(pc, t, "complete_clear")
          /\ UNCHANGED <<startVars, runVars, memory>>
  /\ UNCHANGED <<node_executions, classification_results, draft_generations,
                 collectorVars, envButMemory>>

\* complete_session, line 449: self.current_session = None
CompleteClear(t) ==
  /\ pc[t] = "complete_clear"
  /\ current_session' = NoSession
  /\ Return(t)
  /\ UNCHANGED <<storeVars, node_timers, envButMemory>>

\* ------------------------------------------------------------------ clock
\* time passes between two steps; every clock read within a step returns now
Tick ==
  /\ now < clock_limit
  /\ now' = now + 1
  /\ UNCHANGED <<storeVars, collectorVars, next_uuid, testing_mode, run_limit,
                 clock_limit, poolVars, auxVars, pc, startVars, runVars>>

\* stage names passed to the timer calls
TimerNames == {"classify", "draft_generation"}

\* a direct call metrics.start_node_timer(node_name)
TimeStageStart(node_name) ==
  /\ node_timers' = start_node_timer(node_name)
  /\ UNCHANGED <<storeVars, current_session, envVars, pc, startVars, runVars>>

\* a direct call metrics.end_node_timer(node_name, success)
TimeStageStop(t, node_name, success) ==
  /\ Cardinality(node_executions) < MaxTimerRows
  /\ end_node_timer(t, node_name, success)
  /\ UNCHANGED <<email_sessions, classification_results, draft_generations,
                 current_session, envVars, pc, startVars, runVars>>

\* -------------------------------------------------------- connection pool
\* pool.getconn(): an idle connection, else a new one while fewer than
\* maxconn are checked out, else PoolError (NoId)
Idle == IF pool_free # {} THEN pool_free
        ELSE IF Cardinality(pool_used) < MaxConn THEN {next_conn} ELSE {}

\* _get_connection, line 59: a call begins
AcquireBegin ==
  /\ acquire.pc = "idle"
  /\ acquire.calls < MaxAcquires
  /\ acquire' = [NoAcquire EXCEPT !.pc = "getconn",
                                  !.calls = acquire.calls + 1]
  /\ UNCHANGED <<storeVars, collectorVars, next_uuid, testing_mode, run_limit,
                 clockVars, auxVars, pool_free, pool_used, pool_closed, next_conn,
                 pc, startVars, runVars>>

\* _get_connection, lines 66-81: the except branch.  Before the last attempt
\* the connection held in `conn` is put back with close=True (a PoolError of
\* a connection already put back is swallowed) and the loop goes on; on the
\* last attempt the function returns None at once.
AcquireFailure(failed) ==
  IF acquire.attempt < max_retries - 1
  THEN /\ acquire' = [acquire EXCEPT !.pc = "getconn",
                                     !.attempt = acquire.attempt + 1,
                                     !.failed = failed]
       /\ IF acquire.conn \in pool_used
          THEN /\ pool_used' = pool_used \ {acquire.conn}
               /\ pool_closed' = pool_closed \cup {acquire.conn}
          ELSE UNCHANGED <<pool_used, pool_closed>>
  ELSE /\ acquire' = [acquire EXCEPT !.pc = "done", !.result = NoId,
                                     !.failed = failed]
       /\ UNCHANGED <<pool_used, pool_closed>>

\* _get_connection, line 62: conn = self.db_pool.getconn()
AcquireGetConn ==
  /\ acquire.pc = "getconn"
  /\ IF Idle # {}
     THEN \E c \in Idle :
            /\ pool_free' = pool_free \ {c}
            /\ pool_used' = pool_used \cup {c}
            /\ next_conn' = IF c = next_conn THEN next_conn + 1 ELSE next_conn
            /\ acquire' = [acquire EXCEPT !.pc = "validate", !.conn = c]
            /\ UNCHANGED pool_closed
     ELSE /\ AcquireFailure(acquire.failed)
          /\ UNCHANGED <<pool_free, next_conn>>
  /\ UNCHANGED <<storeVars, collectorVars, next_uuid, testing_mode, run_limit,
                 clockVars, auxVars, pc, startVars, runVars>>

\* _get_connection, lines 64-66: SELECT 1 on the connection; return conn
AcquireValidate ==
  /\ acquire.pc = "validate"
  /\ \/ /\ acquire' = [acquire EXCEPT !.pc = "done", !.result = acquire.conn]
        /\ UNCHANGED <<pool_used, pool_closed>>
     \/ AcquireFailure(acquire.failed \cup {acquire.conn})
  /\ UNCHANGED <<storeVars, collectorVars, next_uuid, testing_mode, run_limit,
                 clockVars, auxVars, pool_free, next_conn, pc, startVars, runVars>>

\* the caller is done with the call: _return_connection(conn) puts the
\* connection back (the pool keeps it while it holds fewer than minconn idle
\* connections and closes it otherwise); nothing to put back after None
AcquireReturn ==
  /\ acquire.pc = "done"
  /\ IF acquire.result # NoId
     THEN /\ pool_used' = pool_used \ {acquire.result}
          /\ IF Cardinality(pool_free) < minconn
             THEN /\ pool_free' = pool_free \cup {acquire.result}
                  /\ UNCHANGED pool_closed
             ELSE /\ pool_closed' = pool_closed \cup {acquire.result}
                  /\ UNCHANGED pool_free
     ELSE UNCHANGED <<pool_free, pool_used, pool_closed>>
  /\ acquire' = [NoAcquire EXCEPT !.calls = acquire.calls]
  /\ UNCHANGED <<storeVars, collectorVars, next_uuid, testing_mode, run_limit,
                 clockVars, auxVars, next_conn, pc, startVars, runVars>>

\* ------------------------------------------------------- pool consumers
\* what the consumers leave alone
nonPoolVars == <<storeVars, collectorVars, next_uuid, testing_mode, run_limit,
                 clockVars, score_call, pollVars, memory, pc, startVars,
                 runVars>>

PutConnIgnoresClose(conn, close) ==
  IF conn \notin pool_used
  THEN UNCHANGED <<pool_free, pool_used, pool_closed>>
  ELSE /\ pool_used' = pool_used \ {conn}
       /\ IF Cardinality(pool_free) < minconn
          THEN /\ pool_free' = pool_free \cup {conn}
               /\ UNCHANGED pool_closed
          ELSE /\ pool_closed' = pool_closed \cup {conn}
               /\ UNCHANGED pool_free

\* pool.putconn(conn, close): a connection that is not checked out raises
\* PoolError (every caller here swallows it); otherwise the connection leaves
\* the checked-out set and is kept idle while the pool holds fewer than
\* minconn idle connections and close is not asked for, and closed otherwise
PutConn(conn, close) ==
  IF conn \notin pool_used
  THEN UNCHANGED <<pool_free, pool_used, pool_closed>>
  ELSE /\ pool_used' = pool_used \ {conn}
       /\ IF Cardinality(pool_free) < minconn /\ ~close
          THEN /\ pool_free' = pool_free \cup {conn}
               /\ UNCHANGED pool_closed
          ELSE /\ pool_closed' = pool_closed \cup {conn}
               /\ UNCHANGED pool_free

\* the outcomes of the statement of a query: it commits, it fails with a
\* message that mentions ssl, closed or connection, it fails otherwise
QueryOutcomes == {"success", "transient", "other"}

\* _execute_query, line 95: conn = self._get_connection()
QueryBegin ==
  /\ query.pc \in {"idle", "returned"}
  /\ acquire.pc = "idle"
  /\ acquire.calls < MaxAcquires
  /\ acquire' = [NoAcquire EXCEPT !.pc = "getconn",
                                  !.calls = acquire.calls + 1]
  /\ query' = [NoQuery EXCEPT !.pc = "acquiring"]
  /\ UNCHANGED <<nonPoolVars, pool_free, pool_used, pool_closed, next_conn,
                 fetch>>

\* _execute_query, lines 96-124: no connection returns None at once;
\* otherwise the statement runs: commit and return, or rollback, and for a
\* transient message putconn(conn, close=True), and return None
QueryRun(outcome) ==
  /\ query.pc = "acquiring"
  /\ acquire.pc = "done"
  /\ acquire' = [NoAcquire EXCEPT !.calls = acquire.calls]
  /\ IF acquire.result = NoId
     THEN /\ query' = [NoQuery EXCEPT !.pc = "returned"]
          /\ UNCHANGED <<pool_free, pool_used, pool_closed>>
     ELSE /\ query' = [query EXCEPT !.pc = "finally",
                                    !.conn = acquire.result,
                                    !.outcome = outcome,
                                    !.puts = IF outcome = "transient"
                                             THEN 1 ELSE 0]
          /\ IF outcome = "transient"
             THEN PutConn(acquire.result, TRUE)
             ELSE UNCHANGED <<pool_free, pool_used, pool_closed>>
  /\ UNCHANGED <<nonPoolVars, next_conn, fetch>>

\* _execute_query, lines 125-138, the finally block: conn.isolation_level
\* raises on a closed connection.  It does not raise after a commit, it raises
\* after putconn(conn, close=True), and after another error it raises when the
\* error left the connection closed.  When it does not raise,
\* _return_connection(conn) puts the connection back; when it raises, or the
\* put raises, putconn(conn, close=True) is tried and its error swallowed.
QueryFinally(alive) ==
  /\ query.pc = "finally"
  /\ query.outcome = "success" => alive
  /\ query.outcome = "transient" => ~alive
  /\ PutConn(query.conn, ~alive)
  /\ query' = [query EXCEPT !.pc = "returned", !.alive = alive,
                            !.puts = IF query.conn \in pool_used
                                     THEN query.puts + 1 ELSE query.puts]
  /\ UNCHANGED <<nonPoolVars, next_conn, acquire, fetch>>

\* the outcomes of the SELECT of get_active_prompt
PromptOutcomes == {"found", "not_found", "exception"}

\* get_active_prompt, line 278: conn = self.db_pool.getconn(); a PoolError
\* is caught at line 303 and the fallback prompt is returned
GetActivePromptGetConn ==
  /\ fetch.pc = "idle"
  /\ IF Idle # {}
     THEN \E c \in Idle :
            /\ pool_free' = pool_free \ {c}
            /\ pool_used' = pool_used \cup {c}
            /\ next_conn' = IF c = next_conn THEN next_conn + 1 ELSE next_conn
            /\ fetch' = [pc |-> "select", held |-> {c}]
     ELSE /\ fetch' = [pc |-> "call", held |-> {}]
          /\ UNCHANGED <<pool_free, pool_used, next_conn>>
  /\ UNCHANGED <<nonPoolVars, pool_closed, acquire, query>>

\* _track_prompt_usage: nothing without a current session; otherwise its own
\* getconn (a PoolError is caught), two statements and a commit, then
\* putconn(conn); a failing statement is caught with the connection still
\* checked out
TrackOutcomes == {"skipped", "ok", "raised"}

_track_prompt_usage(track) ==
  IF track = "skipped" \/ Idle = {}
  THEN /\ fetch' = [fetch EXCEPT !.pc = "call"]
       /\ UNCHANGED <<pool_free, pool_used, next_conn>>
  ELSE \E c \in Idle :
         /\ next_conn' = IF c = next_conn THEN next_conn + 1 ELSE next_conn
         /\ IF track = "ok"
            THEN /\ pool_free' = pool_free \cup {c}
                 /\ fetch' = [fetch EXCEPT !.pc = "call"]
                 /\ UNCHANGED pool_used
            ELSE /\ pool_free' = pool_free \ {c}
                 /\ pool_used' = pool_used \cup {c}
                 /\ fetch' = [pc |-> "call", held |-> fetch.held \cup {c}]

\* get_active_prompt, lines 279-306: the SELECT.  A row found tracks the
\* usage and returns the content from inside the with block, before line
\* 301; no row reaches self.db_pool.putconn(conn) at line 301; an exception
\* is caught at line 303 and the fallback prompt is returned.
GetActivePromptSelect(outcome, track) ==
  /\ fetch.pc = "select"
  /\ IF outcome = "found"
     THEN /\ _track_prompt_usage(track)
          /\ UNCHANGED pool_closed
     ELSE IF outcome = "not_found"
     THEN /\ \E c \in fetch.held : PutConn(c, FALSE)
          /\ fetch' = [pc |-> "call", held |-> {}]
          /\ UNCHANGED next_conn
     ELSE /\ fetch' = [fetch EXCEPT !.pc = "call"]
          /\ UNCHANGED <<pool_free, pool_used, pool_closed, next_conn>>
  /\ UNCHANGED <<nonPoolVars, acquire, query>>

\* classify_node, line 65: model.invoke(messages) returns or raises; the
\* stage is over
CollaboratorReturn ==
  /\ fetch.pc = "call"
  /\ fetch' = NoFetch
  /\ UNCHANGED <<nonPoolVars, poolVars, query>>

\* ---------------------------------------------------------- polling loops
\* what the polling loops and their handlers leave alone
nonPollVars == <<storeVars, collectorVars, next_uuid, testing_mode, run_limit,
                 clockVars, poolVars, score_call, consumerVars, memory, pc,
                 startVars, runVars>>

\* threading.Thread(target=continuous_email_processing).start()
SpawnPoller ==
  \E i \in Pollers :
    /\ pollers[i].pc = "none"
    /\ pollers' = Upd(pollers, i, [pc |-> "spawned", failed |-> FALSE])

\* POST /start_email_polling: returns already_running when the flag is set,
\* and starts a thread otherwise; the flag is left as it is
start_email_polling ==
  /\ ~email_processing_active
  /\ SpawnPoller
  /\ UNCHANGED <<nonPollVars, email_processing_active, main_loop>>

\* POST /stop_email_polling: returns not_running when the flag is clear, and
\* clears it otherwise
stop_email_polling ==
  /\ email_processing_active
  /\ email_processing_active' = FALSE
  /\ UNCHANGED <<nonPollVars, pollers, main_loop>>

\* continuous_email_processing, line 381: email_processing_active = True
PollerBegin(i) ==
  /\ pollers[i].pc = "spawned"
  /\ email_processing_active' = TRUE
  /\ pollers' = Upd(pollers, i, [pollers[i] EXCEPT !.pc = "check"])
  /\ UNCHANGED <<nonPollVars, main_loop>>

\* continuous_email_processing, line 383: while email_processing_active; the
\* function returns, and the thread ends, when the flag is clear
PollerCheck(i) ==
  /\ pollers[i].pc = "check"
  /\ pollers' = Upd(pollers, i, IF email_processing_active
                                THEN [pollers[i] EXCEPT !.pc = "scan"]
                                ELSE NoPoller)
  /\ UNCHANGED <<nonPollVars, email_processing_active, main_loop>>

\* the outcomes of one iteration: the messages were fetched and each one
\* processed (an error of one message is caught inside the for loop), or an
\* exception reached the except branch of the loop
ScanOutcomes == {"scanned", "raised"}

PollerScanExitsOnError(i, outcome) ==
  /\ pollers[i].pc = "scan"
  /\ pollers' = Upd(pollers, i,
                    IF outcome = "raised" THEN NoPoller
                    ELSE [pc |-> "sleep", failed |-> FALSE])
  /\ UNCHANGED <<nonPollVars, email_processing_active, main_loop>>

\* continuous_email_processing, lines 384-435: one iteration up to its sleep
PollerScan(i, outcome) ==
  /\ pollers[i].pc = "scan"
  /\ pollers' = Upd(pollers, i,
                    IF outcome = "raised"
                    THEN [pc |-> "backoff", failed |-> TRUE]
                    ELSE [pc |-> "sleep", failed |-> FALSE])
  /\ UNCHANGED <<nonPollVars, email_processing_active, main_loop>>

\* continuous_email_processing, lines 430 and 435: time.sleep(60) returns
PollerSleep(i) ==
  /\ pollers[i].pc \in {"sleep", "backoff"}
  /\ pollers' = Upd(pollers, i, [pollers[i] EXCEPT !.pc = "check"])
  /\ UNCHANGED <<nonPollVars, email_processing_active, main_loop>>

Poller(i) ==
  \/ PollerBegin(i) \/ PollerCheck(i) \/ PollerSleep(i)
  \/ \E outcome \in ScanOutcomes : PollerScan(i, outcome)

\* run_assistant.main_loop, lines 95-111: one iteration up to its sleep
MainLoopScan(outcome) ==
  /\ main_loop.pc = "scan"
  /\ main_loop' = IF outcome = "raised"
                  THEN [pc |-> "backoff", failed |-> TRUE]
                  ELSE [pc |-> "sleep", failed |-> FALSE]
  /\ UNCHANGED <<nonPollVars, email_processing_active, pollers>>

\* run_assistant.main_loop, lines 111 and 119: time.sleep returns
MainLoopSleep ==
  /\ main_loop.pc \in {"sleep", "backoff"}
  /\ main_loop' = [main_loop EXCEPT !.pc = "scan"]
  /\ UNCHANGED <<nonPollVars, email_processing_active, pollers>>

\* run_assistant.main_loop, lines 113-115: KeyboardInterrupt ends the loop,
\* and the process with it
MainLoopInterrupt ==
  /\ main_loop.pc # "exited"
  /\ main_loop' = [main_loop EXCEPT !.pc = "exited"]
  /\ UNCHANGED <<nonPollVars, email_processing_active, pollers>>

MainLoop ==
  \/ MainLoopSleep
  \/ \E outcome \in ScanOutcomes : MainLoopScan(outcome)

\* ----------------------------------------------------------------- scores
\* scores are counted in hundredths: 0.60 is 60
\* the human actions of a feedback, the ratings (0: no rating given)
FeedbackActions == {"approved", "rejected", "rated", "edited"}
Ratings == 0..5

\* _calculate_quality_score with the edit distance bands shifted by one
\* (<= 50 and <= 200)
_calculate_quality_score_inclusive(action, rating, edit_distance) ==
  LET feedback == IF action = "approved" /\ edit_distance = 0 THEN 60
                  ELSE IF action = "approved" /\ edit_distance <= 50 THEN 45
                  ELSE IF action = "approved" /\ edit_distance <= 200 THEN 30
                  ELSE 0
      score == IF rating # 0 THEN feedback + rating * 8 ELSE feedback
      final == IF action = "rated" /\ rating # 0 THEN rating * 20 ELSE score
  IN IF final < 100 THEN final ELSE 100

\* _calculate_quality_score(action, rating, edit_distance)
_calculate_quality_score(action, rating, edit_distance) ==
  LET feedback == IF action = "approved" /\ edit_distance = 0 THEN 60
                  ELSE IF action = "approved" /\ edit_distance < 50 THEN 45
                  ELSE IF action = "approved" /\ edit_distance < 200 THEN 30
                  ELSE 0
      score == IF rating # 0 THEN feedback + rating * 8 ELSE feedback
      final == IF action = "rated" /\ rating # 0 THEN rating * 20 ELSE score
  IN IF final < 100 THEN final ELSE 100

\* _calculate_template_adherence_score with 500 in the 0.80 bucket
_calculate_template_adherence_score_open(draft_length) ==
  IF draft_length < 100 THEN 20
  ELSE IF draft_length < 200 THEN 50
  ELSE IF draft_length < 500 THEN 100
  ELSE IF draft_length <= 800 THEN 80
  ELSE 60

\* _calculate_template_adherence_score(draft_length, placeholders_count)
_calculate_template_adherence_score(draft_length) ==
  IF draft_length < 100 THEN 20
  ELSE IF draft_length < 200 THEN 50
  ELSE IF draft_length <= 500 THEN 100
  ELSE IF draft_length <= 800 THEN 80
  ELSE 60

\* the calls a behaviour may start with
QualityCalls ==
  {[NoScoreCall EXCEPT !.fn = "quality", !.action = a, !.rating = r,
                       !.edit_distance = d] :
     a \in FeedbackActions, r \in Ratings, d \in 0..MaxEditDistance}

AdherenceCalls ==
  {[NoScoreCall EXCEPT !.fn = "adherence", !.draft_length = l] :
     l \in 0..MaxDraftLength}

CalculateQualityScore ==
  /\ score_call.fn = "quality"
  /\ score_call.result = NoScore
  /\ score_call' =
       [score_call EXCEPT !.result =
          _calculate_quality_score(score_call.action, score_call.rating,
                                   score_call.edit_distance)]
  /\ UNCHANGED <<storeVars, collectorVars, next_uuid, testing_mode, run_limit,
                 clockVars, poolVars, consumerVars, pollVars, memory, pc,
                 startVars, runVars>>

CalculateTemplateAdherenceScore ==
  /\ score_call.fn = "adherence"
  /\ score_call.result = NoScore
  /\ score_call' =
       [score_call EXCEPT !.result =
          _calculate_template_adherence_score(score_call.draft_length)]
  /\ UNCHANGED <<storeVars, collectorVars, next_uuid, testing_mode, run_limit,
                 clockVars, poolVars, consumerVars, pollVars, memory, pc,
                 startVars, runVars>>

\* ------------------------------------------------------------ stage graph
\* a node starts executing: its name is appended to the run's trace
Enter(t, node) == executed' = Upd(executed, t, Append(executed[t], node))

\* a collaborator call raises: graph.invoke propagates the exception
Raise(t, msg) ==
  /\ exc' = Upd(exc, t, msg)
  /\ pc' = Upd(pc, t, "raised")

\* rejection_router with a rejection label missing from its list
rejection_router_two_labels(label) ==
  IF label \in {"Identity-based rejection", "Topic-based rejection"}
  THEN "handle_rejection" ELSE "standard_pipeline"

\* the edges of the compiled graph (main.py:442-469); "END" is langgraph's END
rejection_router(label) ==
  IF label \in rejection_types THEN "handle_rejection" ELSE "standard_pipeline"

should_continue_processing(reply) ==
  IF StripLower(reply) = "no" THEN "end" ELSE "continue"

Nodes == {"classify", "rejection_routing", "gen_query", "retrieve",
          "client_gdrive_document_extraction", "generate_draft", "edit_draft",
          "rejection_strategy", "soft_rejection_drafting",
          "slack_notification", "create_gmail_draft"}

\* the edges with generate_draft wired to the notification
EdgesSkipEditDraft ==
         {<<"rejection_strategy", "gen_query">>,
          <<"soft_rejection_drafting", "edit_draft">>,
          <<"gen_query", "retrieve">>,
          <<"retrieve", "client_gdrive_document_extraction">>,
          <<"client_gdrive_document_extraction", "generate_draft">>,
          <<"generate_draft", "slack_notification">>,
          <<"edit_draft", "slack_notification">>,
          <<"slack_notification", "create_gmail_draft">>,
          <<"create_gmail_draft", "END">>}

\* builder.add_edge(a, b)
Edges == {<<"rejection_strategy", "gen_query">>,
          <<"soft_rejection_drafting", "edit_draft">>,
          <<"gen_query", "retrieve">>,
          <<"retrieve", "client_gdrive_document_extraction">>,
          <<"client_gdrive_document_extraction", "generate_draft">>,
          <<"generate_draft", "edit_draft">>,
          <<"edit_draft", "slack_notification">>,
          <<"slack_notification", "create_gmail_draft">>,
          <<"create_gmail_draft", "END">>}

\* the conditional edges with the gate's "end" mapped to the routing node
ConditionalEdgesEndContinues ==
  {<<"classify", "end", "rejection_routing">>,
   <<"classify", "continue", "rejection_routing">>,
   <<"rejection_routing", "handle_rejection", "rejection_strategy">>,
   <<"rejection_routing", "standard_pipeline", "gen_query">>}

\* builder.add_conditional_edges(node, router, mapping)
ConditionalEdges ==
  {<<"classify", "end", "END">>,
   <<"classify", "continue", "rejection_routing">>,
   <<"rejection_routing", "handle_rejection", "rejection_strategy">>,
   <<"rejection_routing", "standard_pipeline", "gen_query">>}

\* the node that runs after `node`; `decision` is the router's answer for a
\* node with conditional edges and is ignored otherwise
NextNode(node, decision) ==
  IF \E e \in Edges : e[1] = node
  THEN (CHOOSE e \in Edges : e[1] = node)[2]
  ELSE (CHOOSE e \in ConditionalEdges : e[1] = node /\ e[2] = decision)[3]

\* position of a thread that is about to run `node`
PcOf(node) == IF node = "END" THEN "end" ELSE node

\* graph.invoke enters the graph from the thread's checkpoint; classify_node,
\* line 58: metrics.start_node_timer("classify")
ClassifyBegin(t) ==
  /\ pc[t] = "classify"
  /\ state' = Upd(state, t, LoadCheckpoint(t))
  /\ Enter(t, "classify")
  /\ node_timers' = start_node_timer("classify")
  /\ pc' = Upd(pc, t, "classify_call")
  /\ UNCHANGED <<storeVars, current_session, envVars, startVars,
                 exc, gate_decision, sent>>

\* classify_node, lines 61-68 and 75-77: the model call returns a label, or
\* raises; the handler closes the timer with success=False and re-raises
ClassifyCall(t, labels, msgs) ==
  /\ pc[t] = "classify_call"
  /\ sent' = Upd(sent, t, sent[t] \cup {"classify_call"})
  /\ \/ \E label \in labels :
          /\ state' = Upd(state, t, [state[t] EXCEPT !.label = label])
          /\ pc' = Upd(pc, t, "classify_log")
          /\ UNCHANGED <<exc, node_timers, node_executions>>
     \/ \E msg \in msgs :
          /\ end_node_timer(t, "classify", FALSE)
          /\ Raise(t, msg)
          /\ UNCHANGED state
  /\ UNCHANGED <<email_sessions, classification_results, draft_generations,
                 current_session, envVars, startVars, executed,
                 gate_decision>>

\* log_classification: no-op without a current session, else one row for
\* the collector's current session
log_classification(t, label) ==
  IF current_session = NoSession THEN classification_results
  ELSE InsertChild(classification_results,
         [session_id |-> current_session.session_id,
          run |-> run_no[t], owner |-> session_id[t]])

\* classify_node, line 71: metrics.log_classification(label)
ClassifyLog(t) ==
  /\ pc[t] = "classify_log"
  /\ classification_results' = log_classification(t, state[t].label)
  /\ pc' = Upd(pc, t, "classify_end")
  /\ UNCHANGED <<email_sessions, node_executions, draft_generations,
                 collectorVars, envVars, startVars, runVars>>

\* classify_node, line 72: metrics.end_node_timer("classify", success=True)
ClassifyEnd(t) ==
  /\ pc[t] = "classify_end"
  /\ end_node_timer(t, "classify", TRUE)
  /\ pc' = Upd(pc, t, "gate")
  /\ UNCHANGED <<email_sessions, classification_results, draft_generations,
                 current_session, envVars, startVars, runVars>>

\* should_continue_processing: the conditional edge out of classify
ContinuationGate(t, replies, msgs) ==
  /\ pc[t] = "gate"
  /\ \/ \E reply \in replies :
          /\ gate_decision' =
               Upd(gate_decision, t, should_continue_processing(reply))
          /\ pc' = Upd(pc, t,
                 PcOf(NextNode("classify", should_continue_processing(reply))))
          /\ UNCHANGED exc
     \/ \E msg \in msgs : Raise(t, msg) /\ UNCHANGED gate_decision
  /\ UNCHANGED <<storeVars, collectorVars, envVars, startVars,
                 state, executed, sent>>

\* passing_node and rejection_router
RejectionRouting(t) ==
  /\ pc[t] = "rejection_routing"
  /\ Enter(t, "rejection_routing")
  /\ pc' = Upd(pc, t,
         PcOf(NextNode("rejection_routing", rejection_router(state[t].label))))
  /\ UNCHANGED <<storeVars, collectorVars, envVars, startVars,
                 state, exc, gate_decision, sent>>

\* rejection_strategy_node without the defaults: the reply is taken as the
\* rejection type
ParsedRejectionTypeNoDefault(reply) == reply

\* rejection_strategy_node, lines 302-311: result.get("rejection_type",
\* "Hard Rejection"), and Hard Rejection when json.loads raises
ParsedRejectionType(reply) ==
  IF reply \in {"unparsable", "no_fields"} THEN "Hard Rejection" ELSE reply

\* result.get("angles", []), and [] when json.loads raises
ParsedAngles(reply) ==
  IF reply \in {"unparsable", "no_fields"} THEN "[]" ELSE "angles"

\* rejection_strategy_node when the analysis call returns `reply`
RejectionAnalysis(t, reply) ==
  /\ pc[t] = "rejection_strategy"
  /\ Enter(t, "rejection_strategy")
  /\ state' = Upd(state, t,
       [state[t] EXCEPT !.rejection_type = ParsedRejectionType(reply),
                        !.challenge_angles = ParsedAngles(reply)])
  /\ pc' = Upd(pc, t, PcOf(NextNode("rejection_strategy", None)))
  /\ UNCHANGED <<storeVars, collectorVars, envVars, startVars,
                 exc, gate_decision, sent>>

\* rejection_strategy_node: the prompt fetch and the analysis call are
\* outside the try block, an exception of either propagates
RejectionStrategy(t) ==
  \/ \E reply \in RejectionReplies : RejectionAnalysis(t, reply)
  \/ /\ pc[t] = "rejection_strategy"
     /\ Enter(t, "rejection_strategy")
     /\ \E msg \in ErrMsgs : Raise(t, msg)
     /\ UNCHANGED <<storeVars, collectorVars, envVars, startVars,
                    state, gate_decision, sent>>

\* generate_query_node
GenerateQuery(t) ==
  /\ pc[t] = "gen_query"
  /\ Enter(t, "gen_query")
  /\ \/ pc' = Upd(pc, t, PcOf(NextNode("gen_query", None))) /\ UNCHANGED exc
     \/ \E msg \in ErrMsgs : Raise(t, msg)
  /\ UNCHANGED <<storeVars, collectorVars, envVars, startVars,
                 state, gate_decision, sent>>

\* retrieve_threads_node: fetch_threads has no handler, a failure propagates
Retrieve(t) ==
  /\ pc[t] = "retrieve"
  /\ Enter(t, "retrieve")
  /\ \/ pc' = Upd(pc, t, PcOf(NextNode("retrieve", None))) /\ UNCHANGED exc
     \/ \E msg \in ErrMsgs : Raise(t, msg)
  /\ UNCHANGED <<storeVars, collectorVars, envVars, startVars,
                 state, gate_decision, sent>>

\* client_gdrive_document_extraction_node, line 96
DocumentExtractionBegin(t) ==
  /\ pc[t] = "client_gdrive_document_extraction"
  /\ Enter(t, "client_gdrive_document_extraction")
  /\ node_timers' = start_node_timer("document_extraction")
  /\ pc' = Upd(pc, t, "document_extraction_run")
  /\ UNCHANGED <<storeVars, current_session, envVars, startVars,
                 state, exc, gate_decision, sent>>

\* document_extraction_status of an exit
DocStatus(outcome) ==
  IF outcome = "extracted" THEN "Success" ELSE "not extracted"

\* client_gdrive_document_extraction_node, lines 98-256: every exit returns a
\* status; the exits at lines 111, 149, 154, 214, 219 return without
\* end_node_timer, the others (the except handler included) close the timer
DocumentExtraction(t) ==
  /\ pc[t] = "document_extraction_run"
  /\ \E outcome \in DocOutcomes :
       /\ IF outcome = "degraded_open"
          THEN UNCHANGED <<node_timers, node_executions>>
          ELSE end_node_timer(t, "document_extraction", outcome = "extracted")
       /\ state' = Upd(state, t,
            [state[t] EXCEPT
               !.relevant_document_content = (outcome = "extracted"),
               !.document_extraction_status = DocStatus(outcome)])
  /\ pc' = Upd(pc, t,
         PcOf(NextNode("client_gdrive_document_extraction", None)))
  /\ UNCHANGED <<email_sessions, classification_results, draft_generations,
                 current_session, envVars, startVars, exc, executed,
                 gate_decision, sent>>

\* draft_node, line 259
GenerateDraftBegin(t) ==
  /\ pc[t] = "generate_draft"
  /\ Enter(t, "generate_draft")
  /\ node_timers' = start_node_timer("draft_generation")
  /\ pc' = Upd(pc, t, "generate_draft_call")
  /\ UNCHANGED <<storeVars, current_session, envVars, startVars,
                 state, exc, gate_decision, sent>>

\* log_draft_generation: no-op without a current session
log_draft_generation(t) ==
  IF current_session = NoSession THEN draft_generations
  ELSE InsertChild(draft_generations,
         [session_id |-> current_session.session_id,
          run |-> run_no[t], owner |-> session_id[t]])

\* draft_node, lines 262-284: the model call (no handler: an exception leaves
\* the timer pending) and metrics.log_draft_generation
GenerateDraftCall(t) ==
  /\ pc[t] = "generate_draft_call"
  /\ \/ /\ draft_generations' = log_draft_generation(t)
        /\ pc' = Upd(pc, t, "generate_draft_end")
        /\ UNCHANGED exc
     \/ \E msg \in ErrMsgs :
          Raise(t, msg) /\ UNCHANGED draft_generations
  /\ UNCHANGED <<email_sessions, node_executions, classification_results,
                 collectorVars, envVars, startVars, state, executed,
                 gate_decision, sent>>

\* draft_node, line 285
GenerateDraftEnd(t) ==
  /\ pc[t] = "generate_draft_end"
  /\ end_node_timer(t, "draft_generation", TRUE)
  /\ pc' = Upd(pc, t, PcOf(NextNode("generate_draft", None)))
  /\ UNCHANGED <<email_sessions, classification_results, draft_generations,
                 current_session, envVars, startVars, runVars>>

\* edit_draft_node
EditDraft(t) ==
  /\ pc[t] = "edit_draft"
  /\ Enter(t, "edit_draft")
  /\ \/ /\ pc' = Upd(pc, t, PcOf(NextNode("edit_draft", None)))
        /\ UNCHANGED exc
     \/ \E msg \in ErrMsgs : Raise(t, msg)
  /\ UNCHANGED <<storeVars, collectorVars, envVars, startVars, state,
                 gate_decision, sent>>

\* slack_notification_node: skipped under TESTING_MODE; otherwise the summary
\* call may raise, and the message is sent with get_current_session_id()
Notify(t) ==
  /\ pc[t] = "slack_notification"
  /\ Enter(t, "slack_notification")
  /\ \/ /\ sent' = IF testing_mode THEN sent
                   ELSE Upd(sent, t, sent[t] \cup {"notification"})
        /\ pc' = Upd(pc, t, PcOf(NextNode("slack_notification", None)))
        /\ UNCHANGED exc
     \/ /\ ~testing_mode
        /\ \E msg \in ErrMsgs : Raise(t, msg)
        /\ UNCHANGED sent
  /\ UNCHANGED <<storeVars, collectorVars, envVars, startVars, state,
                 gate_decision>>

\* the draft_status create_gmail_draft_node returns
DraftStatus(outcome) ==
  IF testing_mode THEN "SKIPPED (Testing Mode)"
  ELSE IF outcome = "exception" THEN "Failed" ELSE "created"

\* create_gmail_draft_node without its try block: an exception of
\* create_draft propagates
CreateDraftArtifactPropagates(t) ==
  /\ pc[t] = "create_gmail_draft"
  /\ Enter(t, "create_gmail_draft")
  /\ \/ /\ sent' = IF testing_mode THEN sent
                   ELSE Upd(sent, t, sent[t] \cup {"draft_artifact"})
        /\ state' = Upd(state, t,
             [state[t] EXCEPT !.draft_status = DraftStatus("created")])
        /\ pc' = Upd(pc, t, PcOf(NextNode("create_gmail_draft", None)))
        /\ UNCHANGED exc
     \/ /\ ~testing_mode
        /\ \E msg \in ErrMsgs : Raise(t, msg)
        /\ UNCHANGED <<sent, state>>
  /\ UNCHANGED <<storeVars, collectorVars, envVars, startVars,
                 gate_decision>>

\* create_gmail_draft_node: skipped under TESTING_MODE; an exception of
\* create_draft is caught and becomes the status string
CreateDraftArtifact(t) ==
  /\ pc[t] = "create_gmail_draft"
  /\ Enter(t, "create_gmail_draft")
  /\ \/ /\ sent' = IF testing_mode THEN sent
                   ELSE Upd(sent, t, sent[t] \cup {"draft_artifact"})
        /\ state' = Upd(state, t,
             [state[t] EXCEPT !.draft_status = DraftStatus("created")])
     \/ /\ ~testing_mode
        /\ state' = Upd(state, t,
             [state[t] EXCEPT !.draft_status = DraftStatus("exception")])
        /\ UNCHANGED sent
  /\ pc' = Upd(pc, t, PcOf(NextNode("create_gmail_draft", None)))
  /\ UNCHANGED <<storeVars, collectorVars, envVars, startVars, exc,
                 gate_decision>>

\* ------------------------------------------------------- specifications
\* the session calls around graph.invoke
Session(t) ==
  \/ StartLookup(t) \/ StartUpdate(t) \/ StartInsert(t)
  \/ Finalize(t) \/ CompleteClear(t)

\* the stages behind the gate
AfterGate(t) ==
  \/ RejectionRouting(t) \/ RejectionStrategy(t)
  \/ GenerateQuery(t) \/ Retrieve(t)
  \/ DocumentExtractionBegin(t) \/ DocumentExtraction(t)
  \/ GenerateDraftBegin(t) \/ GenerateDraftCall(t) \/ GenerateDraftEnd(t)
  \/ EditDraft(t) \/ Notify(t) \/ CreateDraftArtifact(t)

\* One caller at a time, any of the entry points, every collaborator reply.
NextSeq ==
  \/ \E c \in Callers, e \in Emails : Submit(MainThread, c, e)
  \/ Session(MainThread)
  \/ ClassifyBegin(MainThread)
  \/ ClassifyCall(MainThread, Labels, ErrMsgs)
  \/ ClassifyLog(MainThread) \/ ClassifyEnd(MainThread)
  \/ ContinuationGate(MainThread, GateReplies, ErrMsgs)
  \/ AfterGate(MainThread)

SpecSeq == InitSeq /\ [][NextSeq]_vars

\* replit_unified_app.py: the polling thread and the request thread share
\* the collector.  The runs explored are those the gate ends or a
\* collaborator failure aborts.
ConcLabels == {"Topic-based rejection", "No Guests"}
ConcErrMsgs == {"boom"}
ConcGateReplies == {"no", " No "}

Next ==
  \E t \in Threads :
    \/ \E c \in CallersOf(t), e \in Emails : Submit(t, c, e)
    \/ Session(t)
    \/ ClassifyBegin(t)
    \/ ClassifyCall(t, ConcLabels, ConcErrMsgs)
    \/ ClassifyLog(t) \/ ClassifyEnd(t)
    \/ ContinuationGate(t, ConcGateReplies, ConcErrMsgs)

Spec == Init /\ [][Next]_vars

\* the steps of thread t once it has picked up a message
ThreadStep(t) ==
  \/ Session(t)
  \/ ClassifyBegin(t)
  \/ ClassifyCall(t, ConcLabels, ConcErrMsgs)
  \/ ClassifyLog(t) \/ ClassifyEnd(t)
  \/ ContinuationGate(t, ConcGateReplies, ConcErrMsgs)

\* a thread that has work to do goes on with it: every call returns or
\* raises.  Whether another message arrives is up to the senders.
SpecFair == Spec /\ \A t \in Threads : WF_vars(ThreadStep(t))

\* the concurrent system with time passing: each thread submits at most one
\* message
InitClock ==
  /\ InitCommon /\ InitAux
  /\ run_limit = Cardinality(Threads)
  /\ testing_mode = FALSE
  /\ clock_limit = MaxClock

\* the runs explored are those of one label that the gate ends or a
\* failure of the Classify call aborts
ClockLabels == {"No Guests"}
ClockGateReplies == {"no"}

NextClock ==
  \/ Tick
  \/ \E t \in Threads :
       \/ \E c \in CallersOf(t), e \in Emails : Submit(t, c, e)
       \/ Session(t)
       \/ ClassifyBegin(t)
       \/ ClassifyCall(t, ClockLabels, ConcErrMsgs)
       \/ ClassifyLog(t) \/ ClassifyEnd(t)
       \/ ContinuationGate(t, ClockGateReplies, {})

SpecClock == InitClock /\ [][NextClock]_vars

\* one session of process_email and direct calls of the stage timers
InitTimer ==
  /\ InitCommon /\ InitAux
  /\ run_limit = 1
  /\ testing_mode = FALSE
  /\ clock_limit = MaxClock

NextTimer ==
  \/ \E e \in Emails : Submit(MainThread, "process_email", e)
  \/ StartLookup(MainThread)
  \/ StartInsert(MainThread)
  \/ Tick
  \/ \E n \in TimerNames : TimeStageStart(n)
  \/ \E n \in TimerNames, success \in BOOLEAN :
        TimeStageStop(MainThread, n, success)

SpecTimer == InitTimer /\ [][NextTimer]_vars

\* calls of _get_connection, one at a time
InitPool ==
  /\ InitCommon /\ InitAux
  /\ run_limit = 0
  /\ testing_mode = FALSE
  /\ clock_limit = 0

NextPool ==
  AcquireBegin \/ AcquireGetConn \/ AcquireValidate \/ AcquireReturn

SpecPool == InitPool /\ [][NextPool]_vars

\* queries through _execute_query, one at a time, next to the prompt
\* fetches and collaborator calls of the stages
NextQuery ==
  \/ QueryBegin \/ AcquireGetConn \/ AcquireValidate
  \/ \E outcome \in QueryOutcomes : QueryRun(outcome)
  \/ \E alive \in BOOLEAN : QueryFinally(alive)
  \/ GetActivePromptGetConn
  \/ \E outcome \in PromptOutcomes, track \in TrackOutcomes :
        GetActivePromptSelect(outcome, track)
  \/ CollaboratorReturn

SpecQuery == InitPool /\ [][NextQuery]_vars

\* the polling loops.  replit_unified_app.py runs
\* start_automatic_email_processing() once before it serves requests: the
\* first thread is started when the graph is available, whatever the flag.
InitPolling ==
  /\ InitCommon
  /\ score_call = NoScoreCall
  /\ InitConsumers
  /\ InitPollRest
  /\ \E graph \in BOOLEAN :
       pollers = [i \in Pollers |->
                    IF graph /\ i = 1
                    THEN [pc |-> "spawned", failed |-> FALSE] ELSE NoPoller]
  /\ run_limit = 0
  /\ testing_mode = FALSE
  /\ clock_limit = 0

NextPolling ==
  \/ start_email_polling \/ stop_email_polling
  \/ \E i \in Pollers : Poller(i)
  \/ MainLoop \/ MainLoopInterrupt

SpecPolling == InitPolling /\ [][NextPolling]_vars

\* a started thread is scheduled and a sleep returns: every loop takes its
\* next step
SpecPollingFair ==
  /\ SpecPolling
  /\ \A i \in Pollers : WF_vars(Poller(i))
  /\ WF_vars(MainLoop)

\* one caller at a time, any entry point, messages of one sender that differ
\* in their body; the runs explored are those the gate ends or a failure of
\* the Classify call aborts
InitHash ==
  /\ InitCommon /\ InitAux
  /\ run_limit = Cardinality(AllBodies)
  /\ testing_mode = FALSE
  /\ clock_limit = 0

NextHash ==
  \/ \E c \in Callers, e \in AllEmails : Submit(MainThread, c, e)
  \/ Session(MainThread)
  \/ ClassifyBegin(MainThread)
  \/ ClassifyCall(MainThread, ClockLabels, ConcErrMsgs)
  \/ ClassifyLog(MainThread) \/ ClassifyEnd(MainThread)
  \/ ContinuationGate(MainThread, ClockGateReplies, {})

SpecHash == InitHash /\ [][NextHash]_vars

\* one call of a score function, for every argument within the bounds
InitScores ==
  /\ InitCommon
  /\ run_limit = 0
  /\ testing_mode = FALSE
  /\ clock_limit = 0
  /\ InitConsumers /\ InitNoPolling
  /\ score_call \in QualityCalls \cup AdherenceCalls

NextScores == CalculateQualityScore \/ CalculateTemplateAdherenceScore

SpecScores == InitScores /\ [][NextScores]_vars

\* ---------------------------------------------------------------- claims
Range(seq) == {seq[i] : i \in DOMAIN seq}

\* the run of thread t has executed node a, and executed it before node b
\* whenever it has executed b
Before(t, a, b) ==
  /\ a \in Range(executed[t])
  /\ \A i \in DOMAIN executed[t] :
       executed[t][i] = b => \E j \in 1..(i - 1) : executed[t][j] = a

\* C1: once the session of a fingerprint is completed, a resubmission of the
\* message (start returned the skip signal) executes no pipeline stage: no
\* Classify call, no notification, no draft artifact.
C1_CompletedNeverReprocessed ==
  \A t \in Threads :
    start_result[t] = "skip" => executed[t] = <<>> /\ sent[t] = {}

\* C2: start for a fingerprint whose session is processing or failed returns
\* the id of that session, leaves the number of session rows unchanged and
\* leaves the row's status processing; the id of a fingerprint's row never
\* changes, so every repetition returns the same id.
C2_ResumeReturnsExisting ==
  [][ /\ \A t \in Threads :
           (pc[t] = "start_update" /\ pc'[t] # "start_update") =>
             /\ RowsByHash(HashOf(t)) # {}
             /\ \A r \in RowsByHash(HashOf(t)) : session_id'[t] = r.id
             /\ Cardinality(email_sessions') = Cardinality(email_sessions)
             /\ \A r \in email_sessions' :
                  r.email_hash = HashOf(t) =>
                    r.status = "processing" /\ r.id = session_id'[t]
      /\ \A r \in email_sessions :
           \E r2 \in email_sessions' :
             r2.id = r.id /\ r2.email_hash = r.email_hash
      /\ \A r1, r2 \in email_sessions' :
           r1.email_hash = r2.email_hash => r1.id = r2.id ]_vars

C2_Resumed ==
  \E t \in Threads :
    /\ start_result[t] = "resumed"
    /\ \E r \in email_sessions : r.id = session_id[t] /\ r.status = "processing"

\* C3: start for a fingerprint whose session is completed returns the skip
\* signal and writes nothing: no session, stage execution, classification or
\* draft row changes.
C3_SkipWritesNothing ==
  [][ \A t \in Threads :
        ( /\ pc[t] = "start_lookup"
          /\ pc'[t] # "start_lookup"
          /\ \E r \in RowsByHash(HashOf(t)) : r.status = "completed" ) =>
          /\ session_id'[t] = NoId
          /\ start_result'[t] = "skip"
          /\ UNCHANGED storeVars ]_vars

C3_Skipped ==
  \E t \in Threads :
    /\ start_result[t] = "skip"
    /\ \E r \in RowsByHash(HashOf(t)) : r.status = "completed"

\* C4: a session's status changes only processing -> completed/failed, or
\* failed/processing -> processing by a start call; a completed session never
\* changes status again.
C4_StatusTransitions ==
  [][ \A r \in email_sessions : \A r2 \in email_sessions' :
        (r2.id = r.id /\ r2.status # r.status) =>
          \/ r.status = "processing" /\ r2.status \in {"completed", "failed"}
          \/ /\ r.status = "failed" /\ r2.status = "processing"
             /\ \E t \in Threads : pc[t] = "start_update" /\ pc'[t] = "classify"
    ]_vars

\* C5: with two sessions running concurrently, every stage execution,
\* classification and draft row a run writes carries the id of that run's own
\* session, and no row of a run that holds a session is dropped.
C5_RowsCarryOwnSession ==
  /\ \A r \in node_executions : r.session_id = r.owner
  /\ \A r \in classification_results : r.session_id = r.owner
  /\ \A r \in draft_generations : r.session_id = r.owner
  /\ \A t \in Threads :
       (session_id[t] # NoId /\ pc[t] \in {"classify_end", "gate"}) =>
         \E r \in classification_results : r.run = run_no[t]
  /\ \A t \in Threads :
       (session_id[t] # NoId /\ pc[t] = "gate") =>
         \E r \in node_executions : r.run = run_no[t]

\* C6: when the pipeline of one session raises while another session runs,
\* the finalization of the failed run changes no other session's row.
C6_FailureTouchesOwnRowOnly ==
  [][ \A t \in Threads :
        (pc[t] = "raised" /\ pc'[t] # "raised") =>
          \A r \in email_sessions : r.id # session_id[t] => r \in email_sessions'
    ]_vars

\* C7: a run whose pipeline raised, whatever the exception's message (the
\* empty message included), is finalized as failed with that message, never
\* as completed.
C7_RaisedRunRecordedFailed ==
  \A t \in Threads :
    (pc[t] = "complete_clear" /\ exc[t] # None) =>
      \A r \in RowsById(current_session.session_id) :
        r.status = "failed" /\ r.error_message = exc[t]

\* C8: when the gate answers no the run goes from Classify straight to End:
\* no later stage executes, nothing is sent, the only stage execution row of
\* the run is Classify's, no draft row is written, and the session is
\* finalized as completed.
C8_GateNoEndsRun ==
  \A t \in Threads :
    gate_decision[t] = "end" =>
      /\ executed[t] = <<"classify">>
      /\ pc[t] \in {"end", "complete_clear"}
      /\ sent[t] = {"classify_call"}
      /\ \A r \in node_executions : r.run = run_no[t] => r.node_name = "classify"
      /\ \A r \in draft_generations : r.run # run_no[t]
      /\ session_id[t] # NoId =>
           /\ \E r \in node_executions :
                r.run = run_no[t] /\ r.session_id = session_id[t] /\ r.success
           /\ pc[t] = "complete_clear" =>
                \A r \in RowsById(session_id[t]) : r.status = "completed"

C8_GateNoFinalized ==
  \E t \in Threads :
    /\ gate_decision[t] = "end"
    /\ pc[t] = "complete_clear"
    /\ \E r \in RowsById(session_id[t]) : r.status = "completed"

\* C9: behind the gate, RejectionStrategy executes iff the label is one of
\* the three rejection labels; every other label goes from the routing
\* straight to GenerateQuery, and a run produces a rejection type (its state
\* holds another one than it started from) only for a label of that set.
C9_RejectionRouting ==
  \A t \in Threads :
    /\ ("rejection_strategy" \in Range(executed[t])
          \/ pc[t] = "rejection_strategy"
          \/ (executed[t] # <<>> /\ state[t].rejection_type #
                                     LoadCheckpoint(t).rejection_type)) =>
         state[t].label \in rejection_types
    /\ (state[t].label \in rejection_types /\ "gen_query" \in Range(executed[t]))
         => Before(t, "rejection_strategy", "gen_query")
    /\ (state[t].label \notin rejection_types
          /\ "rejection_routing" \in Range(executed[t])) =>
         \A i \in DOMAIN executed[t] :
           (executed[t][i] = "rejection_routing" /\ i < Len(executed[t])) =>
             executed[t][i + 1] = "gen_query"

C9_RejectionStrategyRan ==
  \E t \in Threads :
    /\ Before(t, "rejection_strategy", "gen_query")
    /\ "gen_query" \in Range(executed[t])
    /\ state[t].label = "Identity-based rejection"

\* C10: a run whose rejection was judged a Soft Rejection executes
\* SoftRejectionDrafting before EditDraft.
C10_SoftRejectionDrafted ==
  \A t \in Threads :
    (state[t].rejection_type = "Soft Rejection"
       /\ "edit_draft" \in Range(executed[t])) =>
      Before(t, "soft_rejection_drafting", "edit_draft")

\* the stages that follow RejectionStrategy, in the order of the graph
AfterRejectionStrategy ==
  <<"gen_query", "retrieve", "client_gdrive_document_extraction",
    "generate_draft", "edit_draft", "slack_notification",
    "create_gmail_draft">>

IsPrefix(a, b) == Len(a) <= Len(b) /\ \A i \in 1..Len(a) : a[i] = b[i]

Last(seq) == seq[Len(seq)]

\* RejectionStrategy ran in the run of t and returned
RejectionStrategyReturned(t) ==
  /\ Len(executed[t]) >= 3
  /\ executed[t][3] = "rejection_strategy"
  /\ ~(Len(executed[t]) = 3 /\ exc[t] # None)

\* the run of t produced the default rejection context and has gone on from
\* RejectionStrategy along the stages that follow it
DefaultContextContinues(t) ==
  (state[t].rejection_type = "Hard Rejection"
     /\ state[t].challenge_angles = "[]"
     /\ RejectionStrategyReturned(t)) =>
    /\ IsPrefix(SubSeq(executed[t], 4, Len(executed[t])),
                AfterRejectionStrategy)
    /\ Last(executed[t]) = "rejection_strategy" =>
         pc[t] = "gen_query" /\ exc[t] = None

\* C11: when the label is a rejection label and the rejection analysis
\* reply cannot be parsed, the rejection context becomes {Hard Rejection, []}
\* and the run goes on to GenerateQuery and from there along the stages up to
\* EditDraft and Notify: the unparsable reply raises nothing.
C11_UnparsableRejectionDefaults ==
  [][ \A t \in Threads :
        /\ RejectionAnalysis(t, "unparsable") =>
             /\ state[t].label \in rejection_types
             /\ state'[t].rejection_type = "Hard Rejection"
             /\ state'[t].challenge_angles = "[]"
             /\ pc'[t] = "gen_query"
             /\ exc'[t] = None
        /\ DefaultContextContinues(t)' ]_vars

C11_DefaultContextReachedNotify ==
  \E t \in Threads :
    /\ state[t].label = "Qualification-based rejection"
    /\ state[t].rejection_type = "Hard Rejection"
    /\ state[t].challenge_angles = "[]"
    /\ "edit_draft" \in Range(executed[t])
    /\ "slack_notification" \in Range(executed[t])
    /\ exc[t] = None

\* C12: DocumentExtraction and CreateDraftArtifact never abort the run:
\* whatever happens inside them, the stage leaves a status string and the run
\* proceeds to GenerateDraft, respectively to End, with no exception raised.
C12_ExtractionAndArtifactNeverAbort ==
  [][ \A t \in Threads :
        /\ (pc[t] = "client_gdrive_document_extraction" /\ pc'[t] # pc[t]) =>
             pc'[t] = "document_extraction_run" /\ exc'[t] = None
        /\ (pc[t] = "document_extraction_run" /\ pc'[t] # pc[t]) =>
             /\ pc'[t] = "generate_draft"
             /\ exc'[t] = None
             /\ state'[t].document_extraction_status # None
        /\ (pc[t] = "create_gmail_draft" /\ pc'[t] # pc[t]) =>
             /\ pc'[t] = "end"
             /\ exc'[t] = None
             /\ state'[t].draft_status # None ]_vars

C12_DegradedRunReachedEnd ==
  \E t \in Threads :
    /\ pc[t] = "end"
    /\ state[t].document_extraction_status = "not extracted"
    /\ state[t].draft_status = "Failed"
    /\ exc[t] = None

\* C13: a failure of the vector search does not abort the run: after
\* Retrieve the run is at DocumentExtraction with no exception raised.
C13_RetrieveFailureDegrades ==
  \A t \in Threads :
    (executed[t] # <<>> /\ Last(executed[t]) = "retrieve") =>
      pc[t] = "client_gdrive_document_extraction" /\ exc[t] = None

\* the name a stage passes to the stage timer (None: the stage has no timer)
TimerOf(node) ==
  IF node = "classify" THEN "classify"
  ELSE IF node = "client_gdrive_document_extraction" THEN "document_extraction"
  ELSE IF node = "generate_draft" THEN "draft_generation"
  ELSE None

\* C14: whenever a stage is about to start, or the run has ended or raised,
\* no stage the run executed earlier still has its execution record open;
\* and a stage with a record that ended the run by raising has closed it
\* with success = false.
C14_StageRecordsClosed ==
  \A t \in Threads :
    /\ pc[t] \in Nodes \cup {"end", "raised"} =>
         \A p \in node_timers : \A i \in DOMAIN executed[t] :
           TimerOf(executed[t][i]) # p.node_name
    /\ ( /\ pc[t] = "raised"
         /\ session_id[t] # NoId
         /\ executed[t] # <<>>
         /\ TimerOf(Last(executed[t])) # None ) =>
         \E r \in node_executions :
           /\ r.run = run_no[t]
           /\ r.node_name = TimerOf(Last(executed[t]))
           /\ ~r.success

\* C15: within an active session whose row the store holds, a stop of a
\* stage name with a pending start writes exactly one stage execution row,
\* with duration >= 0 counted from the pending start, and clears the pending
\* start; a stop without a pending start (or without a session) changes
\* nothing; a start sets the pending start of the name to the current time,
\* replacing an earlier one, and nothing else changes a pending start.
C15_TimeStage ==
  [][ \A n \in TimerNames :
        /\ \A success \in BOOLEAN :
             TimeStageStop(MainThread, n, success) =>
               IF current_session # NoSession /\ Pending(n) # {}
               THEN /\ Pending(n)' = {}
                    /\ node_timers' = node_timers \ Pending(n)
                    /\ RowsById(current_session.session_id) # {} =>
                         \E r \in node_executions' :
                           /\ r \notin node_executions
                           /\ node_executions' = node_executions \cup {r}
                           /\ r.node_name = n
                           /\ r.success = success
                           /\ r.session_id = current_session.session_id
                           /\ r.duration_ms >= 0
                           /\ \A p \in Pending(n) :
                                r.duration_ms = now - p.started
               ELSE UNCHANGED vars
        /\ (TimeStageStart(n) /\ current_session # NoSession) =>
             /\ Pending(n)' = {[node_name |-> n, started |-> now]}
             /\ node_timers' \ Pending(n)' = node_timers \ Pending(n)
        /\ Pending(n)' # Pending(n) =>
             \/ TimeStageStart(n)
             \/ \E success \in BOOLEAN : TimeStageStop(MainThread, n, success)
        /\ Cardinality(Pending(n)') <= 1 ]_vars

C15_RestartedStageTimed ==
  \E r \in node_executions :
    /\ r.duration_ms = 1
    /\ now = 2
    /\ Pending(r.node_name) = {}
    /\ r.session_id = current_session.session_id

\* C16: no session has more than one classification result row, also after
\* it failed and was resumed.
C16_OneClassificationPerSession ==
  \A r1, r2 \in classification_results :
    r1.session_id = r2.session_id => r1 = r2

\* C17: a session finalized as completed carries the label Classify produced
\* in that run as its persisted classification, whichever caller finalized it.
C17_CompletedCarriesLabel ==
  \A t \in Threads :
    (pc[t] = "complete_clear" /\ exc[t] = None) =>
      \A r \in RowsById(current_session.session_id) :
        r.status = "completed" => r.classification = state[t].label

\* C18: the finalization of a session, new or resumed, leaves its row with
\* total_duration = completed_at - started_at >= 0.
C18_DurationMatchesTimestamps ==
  [][ \A t \in Threads :
        (pc[t] \in {"end", "raised"} /\ pc'[t] = "complete_clear") =>
          \A r \in email_sessions' :
            r.id = current_session.session_id =>
              /\ r.total_duration = r.completed_at - r.started_at
              /\ r.total_duration >= 0 ]_vars

\* C19: the session table never holds two rows of one fingerprint, also
\* when two start calls of a new fingerprint both look it up before either
\* inserts.
C19_OneRowPerFingerprint ==
  \A r1, r2 \in email_sessions : r1.email_hash = r2.email_hash => r1 = r2

C19_SecondInsertRejected ==
  \E t \in Threads :
    /\ start_result[t] = "insert_failed"
    /\ Cardinality(RowsByHash(HashOf(t))) = 1

\* C20: _get_connection makes at most 3 attempts; every connection whose
\* validation failed is closed and is neither idle in the pool nor checked
\* out when the next attempt starts or the call returns; an attempt never
\* validates a connection that failed before; three failures return None.
C20_FailedConnectionsDiscarded ==
  /\ acquire.attempt < max_retries
  /\ acquire.pc \in {"getconn", "done"} =>
       \A c \in acquire.failed :
         c \in pool_closed /\ c \notin pool_free /\ c \notin pool_used
  /\ acquire.pc = "validate" => acquire.conn \notin acquire.failed
  /\ (acquire.pc = "done" /\ Cardinality(acquire.failed) = max_retries) =>
       acquire.result = NoId

\* C23: the composite quality score is the feedback part (0.60 / 0.45 / 0.30
\* for approved with edit distance 0 / below 50 / below 200, else 0) plus
\* rating/5 * 0.40 when a rating is given, and rating/5 alone when the action
\* is rated with a rating; it lies in [0, 1].
C23_QualityScore ==
  (score_call.fn = "quality" /\ score_call.result # NoScore) =>
    LET a == score_call.action
        r == score_call.rating
        d == score_call.edit_distance
        base == IF a # "approved" THEN 0
                ELSE IF d = 0 THEN 60
                ELSE IF d <= 49 THEN 45
                ELSE IF d <= 199 THEN 30
                ELSE 0
    IN /\ score_call.result >= 0
       /\ score_call.result <= 100
       /\ (a = "rated" /\ r # 0) => score_call.result = 20 * r
       /\ (a # "rated" /\ r # 0) => score_call.result = base + 8 * r
       /\ r = 0 => score_call.result = base

C23_ApprovedNearBandEdge ==
  /\ score_call.fn = "quality"
  /\ score_call.action = "approved"
  /\ score_call.edit_distance = 50
  /\ score_call.rating = 5
  /\ score_call.result = 70

\* C24: the template adherence score is 0.20 below 100 characters, 0.50 from
\* 100 to 199, 1.00 from 200 to 500, 0.80 from 501 to 800 and 0.60 above.
C24_TemplateAdherenceScore ==
  (score_call.fn = "adherence" /\ score_call.result # NoScore) =>
    LET l == score_call.draft_length IN
      /\ l \in 0..99 => score_call.result = 20
      /\ l \in 100..199 => score_call.result = 50
      /\ l \in 200..500 => score_call.result = 100
      /\ l \in 501..800 => score_call.result = 80
      /\ l > 800 => score_call.result = 60

C24_BoundaryLengthsScored ==
  /\ score_call.fn = "adherence"
  /\ score_call.draft_length = 500
  /\ score_call.result = 100

\* the stages of a run of a label whose gate continued, in order
StagesInOrder(label) ==
  <<"classify", "rejection_routing">>
    \o (IF label \in rejection_types THEN <<"rejection_strategy">> ELSE <<>>)
    \o AfterRejectionStrategy

\* C26: a run whose gate continued executes its stages once each in the
\* order RejectionStrategy (rejection labels only), GenerateQuery, Retrieve,
\* DocumentExtraction, GenerateDraft, EditDraft, Notify, CreateDraftArtifact,
\* and reaches End exactly after all of them when no stage raised.
C26_StagesInOrder ==
  \A t \in Threads :
    gate_decision[t] = "continue" =>
      /\ IsPrefix(executed[t], StagesInOrder(state[t].label))
      /\ (pc[t] = "end" \/ (pc[t] = "complete_clear" /\ exc[t] = None)) =>
           executed[t] = StagesInOrder(state[t].label)
      /\ (executed[t] = StagesInOrder(state[t].label)) =>
           pc[t] \in {"end", "complete_clear"} /\ exc[t] = None

C26_BothBranchesReachedEnd ==
  \E t \in Threads :
    /\ pc[t] = "end"
    /\ gate_decision[t] = "continue"
    /\ state[t].label = "Topic-based rejection"
    /\ Len(executed[t]) = 10

\* C27: a submission is skipped as completed or resumed into an existing
\* session only when that session was created for a message with the same
\* text: messages of one sender with different bodies never share a
\* fingerprint, whichever entry point submits them.
C27_DifferentBodiesDifferentSessions ==
  \A t \in Threads :
    start_result[t] \in {"skip", "resumed"} =>
      \A r \in RowsByHash(HashOf(t)) : r.text = email_details[t].text

\* C21: while a stage has a collaborator call in flight, no pool connection
\* is checked out on behalf of its session: the prompt fetch at the start of
\* the stage released its connection before the call began.
C21_NoConnectionAcrossCollaboratorCall ==
  fetch.pc = "call" => fetch.held \cap pool_used = {}

\* C25 as stated: when _execute_query returns, the connection it acquired was
\* released exactly once: idle in the pool after a success, closed and not
\* idle after a transient error, idle after any other error; never both idle
\* and closed, never checked out.
QueryReturns == query.pc = "finally" /\ query'.pc = "returned"

LoopsSurviveExceptions ==
  /\ \A i \in Pollers :
       (pollers[i].pc # "none" /\ pollers'[i].pc = "none") =>
         (pollers[i].pc = "check" /\ ~email_processing_active)
  /\ \A i \in Pollers :
       pollers[i].pc = "scan" => pollers'[i].pc \in {"scan", "sleep", "backoff"}
  /\ main_loop.pc = "scan" =>
       main_loop'.pc \in {"scan", "sleep", "backoff", "exited"}

C30_AtMostOnePollingThread ==
  Cardinality({i \in Pollers : pollers[i].pc # "none"}) <= 1

\* C28: a run starts from the caller's input fields alone: when the first
\* stage begins, no stage output of an earlier run is in the state.
C28_RunStartsFromInputOnly ==
  \A t \in Threads : pc[t] = "classify_call" => state[t] = EmptyState

\* C29: every session that start has put in status processing is eventually
\* persisted as completed or failed: none stays processing forever after
\* its run has ended.
SessionIds == 1..MaxRuns

C29_SessionsReachFinalStatus ==
  \A id \in SessionIds :
    (\E r \in RowsById(id) : r.status = "processing")
      ~> (\E r \in RowsById(id) : r.status \in {"completed", "failed"})

====
